---- MODULE Spec2Model ----
(***************************************************************************)
(* The globe engine of src/app/page.tsx (the final variant, lines 440-922):*)
(* the asynchronous initialization loadGlobe, the effect cleanup, the      *)
(* interaction handlers with their debounce timer, and the frame loop      *)
(* animate.                                                                *)
(*                                                                         *)
(* Time is in milliseconds.  Longitude is kept exactly, in the angle the   *)
(* globe turns in one millisecond: degreesPerMillisecond = 360 / MsPerDay  *)
(* degrees, so one unit is 1/240000 degree, 360 degrees are MsPerDay units *)
(* and the increment of a tick is deltaTime units.  The code computes the  *)
(* same quantities in double precision.                                    *)
(***************************************************************************)
EXTENDS Integers, FiniteSets, Sequences, TLC

VARIABLES
    now,               \* Date.now()
    pc,                \* position of loadGlobe: the await it is suspended at
    isMounted,         \* the aliveness flag of the effect (page.tsx:513)
    solarRef,          \* solarRef.current is set
    globeWorld,        \* window.__globeWorld is set
    controlsRef,       \* controlsRef.current is set
    listeners,         \* events of the controls that have a handler registered
    disposed,          \* controls.dispose() was called
    isUserInteracting, \* isUserInteracting.current
    timeoutRef,        \* interactionTimeoutRef.current is a handle (not null)
    timers,            \* the pending timeouts
    lastFrameTime,     \* lastFrameTimeRef.current
    rafPending,        \* number of pending requestAnimationFrame callbacks
    pov,               \* world.pointOfView(): [lng, lat, altitude]
    camSyncAt,         \* instant whose declination cam.up was last set from
    cam,               \* the camera: its up-vector and the up-vector its
                       \* orientation was last computed from (lookAt)
    tex,               \* the loads of the day and the night texture
    location,          \* the React state `location`
    effectPending,     \* a render with a new `location` is committed and
                       \* its location effect has not run yet
    marker,            \* the points of the globe (world.pointsData)
    recenter,          \* the animated transition of the point of view
    resolved,          \* history: locations resolved so far
    applied,           \* history: runs of the location effect that reached
                       \* the globe
    \* GlobeView (part_000)
    viewMounted,       \* the component is mounted
    viewMounts,        \* mounts so far; the last is the current instance
    viewAlive,         \* isMounted of each instance's engine effect
    viewPc,            \* where each instance's loadGlobe stands
    viewGlobal,        \* window.__globeWorld: 0, or the instance whose world
    observed,          \* the world the ResizeObserver's callback captured; 0
                       \* when there is no observer
    notifyPending,     \* the observer has a notification to deliver
    surface,           \* offsetWidth and offsetHeight of the container
    buffer,            \* the size each world's renderer buffer was given
                       \* by setSize; <<>> before the first call
    projection,        \* the camera made for each world; <<>> before
    viewSize,          \* the width and height each loadGlobe read before
                       \* the await of its camera (lines 176-177)
    viewLocation,      \* the prop `location`
    viewEffectPending, \* a render with a new prop is committed and its
                       \* location effect has not run yet
    viewMarker,        \* the points of each world (world.pointsData)
    viewTarget,        \* the point of view last asked of each world
    sunUniform,        \* sunPosition of each world's material was written
    lastView,          \* history: the last GlobeView step
    \* inputs and results of the pure-function specifications
    sunIn, sunOut, projIn, projOut, shadeIn, shadeOut, rateIn, rateOut,
    lastOp,            \* history: the operation that ran last
    inFlight,          \* gestures in progress: starts handled whose end has not been
    lastEvent,         \* history: the last event the controls dispatched
    releasedAt,        \* history: instant of the last run of the timer callback
    lastTickAt,        \* history: instant of the last run of animate while alive
    normIn,            \* SpecNorm: the longitude read and the deltaTime
    normOut            \* SpecNorm: the longitude written

vars == <<now, pc, isMounted, solarRef, globeWorld, controlsRef, listeners,
          disposed, isUserInteracting, timeoutRef, timers, lastFrameTime,
          rafPending, pov, camSyncAt, cam, tex, location, effectPending,
          marker, recenter, resolved, applied, lastOp, inFlight, lastEvent, releasedAt, lastTickAt,
          viewMounted, viewMounts, viewAlive, viewPc, viewGlobal, observed,
          notifyPending, surface, buffer, projection, viewSize,
          viewLocation, viewEffectPending, viewMarker, viewTarget,
          sunUniform, lastView,
          normIn, normOut, sunIn, sunOut, projIn, projOut, shadeIn,
          shadeOut, rateIn, rateOut>>

engineVars == <<now, pc, isMounted, solarRef, globeWorld, controlsRef,
                listeners, disposed, isUserInteracting, timeoutRef, timers,
                lastFrameTime, rafPending, pov, camSyncAt, cam, tex,
                location, effectPending, marker, recenter, resolved,
                applied, lastOp,
                inFlight, lastEvent, releasedAt, lastTickAt>>

\* the state of the location effect
locVars == <<location, effectPending, marker, recenter, resolved, applied>>

\* the state of GlobeView
viewVars == <<viewMounted, viewMounts, viewAlive, viewPc, viewGlobal,
              observed, notifyPending, surface, buffer, projection,
              viewSize, viewLocation, viewEffectPending, viewMarker,
              viewTarget, sunUniform, lastView>>

\* the state of the location effect of GlobeView
viewLocVars == <<viewLocation, viewEffectPending, viewMarker, viewTarget>>

\* the inputs and results of the pure-function specifications
pureVars == <<normIn, normOut, sunIn, sunOut, projIn, projOut, shadeIn,
              shadeOut, rateIn, rateOut>>

\* what no step of the engine of page.tsx touches
otherVars == <<viewVars, pureVars>>

-----------------------------------------------------------------------------
(* Program constants *)

\* 24 * 60 * 60 * 1000, the divisor of degreesPerMillisecond
MsPerDay == 24 * 60 * 60 * 1000

\* 360 degrees and 180 degrees in longitude units
FullTurn == MsPerDay
HalfTurn == FullTurn \div 2

\* the delay of the release timer
DebounceMs == 2000

\* the point of view of the new Globe, before any writer
DefaultPov == [lng |-> 0, lat |-> 0, altitude |-> 2]

\* the duration of the transition to a resolved location
RecenterMs == 1000

\* the altitude of the point of view a recenter ends at
RecenterAltitude == 2

\* no location resolved yet (location === null), no transition running
NoLocation == [name |-> "none"]
NoRecenter == [to |-> NoLocation, until |-> -1]

-----------------------------------------------------------------------------
(* Bounds of the model *)

\* the clock runs over MaxQuanta half-debounce periods
MaxQuanta == 3

\* re-entrant starts counted by the history variable inFlight
MaxDepth == 2

\* raw longitudes of SpecNorm range over MaxTurns full turns either side
MaxTurns == 2

Quantum == DebounceMs \div 2

\* the instants the clock takes: each multiple of the quantum and the
\* millisecond after it
Instants == { k * Quantum + j : k \in 0..MaxQuanta, j \in {0, 1} }

\* raw longitudes: the multiples of 90 degrees over MaxTurns turns either
\* side of zero, and their neighbours
RawLngs ==
    { k * (HalfTurn \div 2) + j : k \in (-4 * MaxTurns)..(4 * MaxTurns),
                                  j \in {-1, 0, 1} }

\* deltaTimes of SpecNorm: none, a millisecond, a quantum, a day, days
NormDeltas == {0, 1, Quantum, MsPerDay, MaxTurns * MsPerDay + 1}

\* at most MaxResolutions locations are resolved in a run
MaxResolutions == 2

\* the locations the geocoding returns: longitudes 90 W and 60 E
Locations ==
    { [name |-> "west", lat |-> 40,  lng |-> -(HalfTurn \div 2)],
      [name |-> "east", lat |-> -30, lng |-> HalfTurn \div 3] }

\* SpecShade takes the intensities 0, 0.025, ... up to MaxShadeSteps steps
MaxShadeSteps == 8

\* SpecSun takes instants of MaxDays + 1 days
MaxDays == 1

\* GlobeView is mounted at most MaxMounts times
MaxMounts == 2

\* widths and heights of SpecProj: up to MaxSide hundreds of pixels
MaxSide == 6

\* points of view a user drag leaves behind (OrbitControls moves the camera)
DragPovs ==
    { [lng |-> Quantum - HalfTurn, lat |-> 10, altitude |-> 2],
      [lng |-> HalfTurn,           lat |-> 0,  altitude |-> 3] }

-----------------------------------------------------------------------------
(* Pure functions *)

\* while (newLng <= -180) newLng += 360;
RECURSIVE WhileLow(_)
WhileLow(x) == IF x <= -HalfTurn THEN WhileLow(x + FullTurn) ELSE x

\* while (newLng > 180) newLng -= 360;
RECURSIVE WhileHigh(_)
WhileHigh(x) == IF x > HalfTurn THEN WhileHigh(x - FullTurn) ELSE x

\* one correction in place of each loop
NormalizeLngOnce(x) ==
    IF x <= -HalfTurn THEN x + FullTurn
    ELSE IF x > HalfTurn THEN x - FullTurn
    ELSE x

\* the two loops of lines 726-727
NormalizeLng(x) == WhileHigh(WhileLow(x))

\* the rate multiplied by 100, the test speed the comment of line 518 names
RotationIncrementFast(deltaTime) == 100 * deltaTime

\* rotationIncrementDegrees = degreesPerMillisecond * deltaTime
RotationIncrement(deltaTime) == deltaTime

\* newLng = currentPov.lng - rotationIncrementDegrees, then the two loops
NewLng(lng, deltaTime) == NormalizeLng(lng - RotationIncrement(deltaTime))

-----------------------------------------------------------------------------
(* The rotation step in the arithmetic of the code.  A number of JavaScript *)
(* is an IEEE 754 double: every operation gives the double nearest to the   *)
(* exact result, ties to the even mantissa.  A double is modelled by its    *)
(* sign and its magnitude, the magnitude by the set of the positions of its *)
(* binary digits 1, the digit at position b being worth 2^(b - FracBits)    *)
(* degrees.  The doubles of the rotation step are multiples of 2^-70 below  *)
(* 2^11, which this holds exactly.  SpecRate, which compares the results of *)
(* rotation steps with each other, computes them this way; the engine keeps *)
(* its longitudes in whole units of the rotation of a millisecond.          *)

\* the position of the binary digit worth one degree
FracBits == 72

\* the binary digits of the mantissa of a double
Precision == 53

\* the largest element of a set of positions
MaxOf(S) == CHOOSE b \in S : \A c \in S : c <= b

\* the magnitude of the natural number n with its unit at position off
BitsOfNat(n, off) ==
    { off + j : j \in { k \in 0..30 : (n \div (2 ^ k)) % 2 = 1 } }

\* the exact sum of two magnitudes: position i takes a carry when a lower
\* position j holds a digit of both and every position between holds one
AddMag(A, B) ==
    LET Carry(i) == \E j \in (A \cap B) :
                       /\ j < i
                       /\ \A k \in (j + 1)..(i - 1) : k \in A \cup B
    IN  { i \in 0..(MaxOf(A \cup B \cup {0}) + 1) :
             ((i \in A) # (i \in B)) # Carry(i) }

\* the exact difference of two magnitudes, the first the larger: position
\* i lends when a lower position j holds a digit of B alone and no position
\* between holds a digit of A alone
SubMag(A, B) ==
    LET Borrow(i) == \E j \in (B \ A) :
                        /\ j < i
                        /\ \A k \in (j + 1)..(i - 1) : k \notin (A \ B)
    IN  { i \in 0..MaxOf(A \cup B \cup {0}) :
             ((i \in A) # (i \in B)) # Borrow(i) }

LessMag(A, B) == A # B /\ MaxOf((A \ B) \cup (B \ A)) \in B

\* the exact product of a magnitude and a natural number, two binary
\* digits of the number at a time
RECURSIVE MulNat(_, _)
MulNat(A, k) ==
    IF k = 0 THEN {}
    ELSE LET high == { b + 2 : b \in MulNat(A, k \div 4) }
             twice == { b + 1 : b \in A }
         IN  CASE k % 4 = 0 -> high
               [] k % 4 = 1 -> AddMag(high, A)
               [] k % 4 = 2 -> AddMag(high, twice)
               [] k % 4 = 3 -> AddMag(high, AddMag(twice, A))

\* rounding to the nearest double, ties to even: A is the exact magnitude
\* cut off below position 0, sticky says that something was cut off
RoundMag(A, sticky) ==
    IF A = {} \/ MaxOf(A) < Precision
    THEN A
    ELSE LET cut == MaxOf(A) - (Precision - 1)
             kept == { b \in A : b >= cut }
             half == (cut - 1) \in A
             below == sticky \/ \E b \in A : b < cut - 1
         IN  IF half /\ (below \/ cut \in A)
             THEN AddMag(kept, {cut})
             ELSE kept

\* the binary digits of r / d from position pos down to position 0, for
\* r < d, three at a time, and what is left
RECURSIVE FracFrom(_, _, _)
FracFrom(r, d, pos) ==
    IF pos < 0
    THEN [bits |-> {}, rem |-> r]
    ELSE LET rest == FracFrom((8 * r) % d, d, pos - 3)
         IN  [bits |-> BitsOfNat((8 * r) \div d, pos - 2) \cup rest.bits,
              rem |-> rest.rem]

\* the double n / d of two natural numbers
Quotient(n, d) ==
    LET f == FracFrom(n % d, d, FracBits - 1)
    IN  RoundMag(BitsOfNat(n \div d, FracBits) \cup f.bits, f.rem # 0)

\* the double of a whole number of degrees
Degrees(n) ==
    [neg |-> n < 0, mag |-> BitsOfNat(IF n < 0 THEN -n ELSE n, FracBits)]

\* the double nearest to a longitude of the model's units
DoubleOfLng(lng) ==
    [neg |-> lng < 0,
     mag |-> Quotient(IF lng < 0 THEN -lng ELSE lng, FullTurn \div 360)]

Minus(x) == IF x.mag = {} THEN x ELSE [neg |-> ~x.neg, mag |-> x.mag]

ExactSum(x, y) ==
    IF x.neg = y.neg THEN [neg |-> x.neg, mag |-> AddMag(x.mag, y.mag)]
    ELSE IF x.mag = y.mag THEN [neg |-> FALSE, mag |-> {}]
    ELSE IF LessMag(x.mag, y.mag)
         THEN [neg |-> y.neg, mag |-> SubMag(y.mag, x.mag)]
         ELSE [neg |-> x.neg, mag |-> SubMag(x.mag, y.mag)]

\* x + y and x - y of the code
DoubleAdd(x, y) ==
    [neg |-> ExactSum(x, y).neg, mag |-> RoundMag(ExactSum(x, y).mag, FALSE)]

DoubleSub(x, y) == DoubleAdd(x, Minus(y))

\* x < y
LessThan(x, y) ==
    IF x.neg # y.neg THEN x.neg
    ELSE IF x.neg THEN LessMag(y.mag, x.mag)
    ELSE LessMag(x.mag, y.mag)

\* const degreesPerMillisecond = (360 / (24 * 60 * 60 * 1000))
DegreesPerMillisecond == Quotient(360, 24 * 60 * 60 * 1000)

\* rotationIncrementDegrees = degreesPerMillisecond * deltaTime
RotationIncrementDegrees(deltaTime) ==
    [neg |-> FALSE,
     mag |-> RoundMag(MulNat(DegreesPerMillisecond, deltaTime), FALSE)]

\* while (newLng <= -180) newLng += 360;
RECURSIVE WhileLowDouble(_)
WhileLowDouble(x) ==
    IF ~LessThan(Degrees(-180), x)
    THEN WhileLowDouble(DoubleAdd(x, Degrees(360)))
    ELSE x

\* while (newLng > 180) newLng -= 360;
RECURSIVE WhileHighDouble(_)
WhileHighDouble(x) ==
    IF LessThan(Degrees(180), x)
    THEN WhileHighDouble(DoubleSub(x, Degrees(360)))
    ELSE x

\* the two loops of lines 726-727
NormalizeDouble(x) == WhileHighDouble(WhileLowDouble(x))

\* the increment of one tick held to half a turn
NewLngDoubleCapped(lng, deltaTime) ==
    NormalizeDouble(
        DoubleSub(lng, IF LessThan(Degrees(180),
                                   RotationIncrementDegrees(deltaTime))
                       THEN Degrees(180)
                       ELSE RotationIncrementDegrees(deltaTime)))

\* newLng = currentPov.lng - rotationIncrementDegrees, then the two loops
NewLngDouble(lng, deltaTime) ==
    NormalizeDouble(DoubleSub(lng, RotationIncrementDegrees(deltaTime)))

\* the distance of two longitudes of (-180, 180] on the circle, exactly
CircleDistance(x, y) ==
    LET d == ExactSum(x, Minus(y)).mag
    IN  IF LessMag(Degrees(180).mag, d) THEN SubMag(Degrees(360).mag, d)
        ELSE d

-----------------------------------------------------------------------------
(* The viewport of GlobeView (part_000).  Lengths of the projection are     *)
(* fractions <<numerator, denominator>> with a denominator of 0 or more;    *)
(* <<0, 0>> is the NaN of 0 / 0.                                            *)

\* the instances of GlobeView, one for each mount
ViewInstances == 1..MaxMounts

\* sizes of the container: widths and heights in pixels
Sides == { k * 100 : k \in 1..MaxSide }
InitialSurface == [width |-> 600, height |-> 600]
ViewSurfaces ==
    { InitialSurface,
      [width |-> 800, height |-> 400],
      [width |-> 400, height |-> 800] }

Min(a, b) == IF a <= b THEN a ELSE b
Neg(q) == <<-q[1], q[2]>>
Times(q, r) == <<q[1] * r[1], q[2] * r[2]>>
AtLeast(q, r) == q[1] * r[2] >= r[1] * q[2]

\* const d = Math.min(width, height) / 2.1
HalfExtent(width, height) == <<10 * Min(width, height), 21>>

\* const aspect = width / height
Aspect(width, height) == <<width, height>>

\* loadGlobe's camera for the width and height it read: const d = 250;
\* new OrthographicCamera(-d * aspect, d * aspect, d, -d, 0.1, 2000)
FirstCamera(width, height) ==
    [left   |-> Neg(Times(<<250, 1>>, Aspect(width, height))),
     right  |-> Times(<<250, 1>>, Aspect(width, height)),
     top    |-> <<250, 1>>,
     bottom |-> <<-250, 1>>]

\* a perspective camera, of which the resize callback writes the aspect
PerspectiveCamera(width, height) == [aspect |-> Aspect(width, height)]

\* d * aspect
HalfWidth(width, height) ==
    Times(HalfExtent(width, height), Aspect(width, height))

\* the body of the ResizeObserver callback on the camera
ResizeCamera(camera, kind, width, height) ==
    IF kind = "orthographic"
    THEN [left   |-> Neg(HalfWidth(width, height)),
          right  |-> HalfWidth(width, height),
          top    |-> HalfExtent(width, height),
          bottom |-> Neg(HalfExtent(width, height))]
    ELSE [camera EXCEPT !.aspect = Aspect(width, height)]

-----------------------------------------------------------------------------
(* The fragment shader of lines 566-591.  Dot products and intensities are  *)
(* in units of 0.005; blend factors and colours are fractions.              *)

\* smoothstep(0.0, 0.15, intensity): the two edges
LowerEdge == 0
UpperEdge == 30

\* dot products of the unit normal and the unit light direction
Dots ==
    {-200, -100, -1, 1, 29, 31, 100, 200}
        \cup { k * 5 : k \in 0..MaxShadeSteps }

\* one channel of texture2D(nightTexture, vUv) and of the day texture
NightSamples == {0, 40}
DaySamples == {200, 255}

Same(q, r) == q[1] * r[2] = r[1] * q[2]

\* the light taken to reach both sides of the surface
IntensityTwoSided(dot) == IF dot < 0 THEN -dot ELSE dot

\* max(0.0, dot(vNormal, sunDirectionViewSpace))
Intensity(dot) == IF dot > 0 THEN dot ELSE 0

\* GLSL clamp(x, 0.0, 1.0) of the fraction n/d, d > 0
Clamp01(q) ==
    IF q[1] <= 0 THEN <<0, 1>> ELSE IF q[1] >= q[2] THEN <<1, 1>> ELSE q

\* GLSL smoothstep(e0, e1, x): t = clamp((x - e0) / (e1 - e0), 0.0, 1.0),
\* t * t * (3.0 - 2.0 * t)
Smoothstep(e0, e1, x) ==
    LET t == Clamp01(<<x - e0, e1 - e0>>)
    IN  <<t[1] * t[1] * (3 * t[2] - 2 * t[1]), t[2] * t[2] * t[2]>>

\* float blendFactor = smoothstep(0.0, 0.15, intensity)
BlendFactor(intensity) == Smoothstep(LowerEdge, UpperEdge, intensity)

\* GLSL mix(x, y, a) = x * (1 - a) + y * a, on one channel
Mix(x, y, a) == <<x * (a[2] - a[1]) + y * a[1], a[2]>>

\* gl_FragColor = mix(nightColor, dayColor, blendFactor), one channel
FragColor(dot, night, day) == Mix(night, day, BlendFactor(Intensity(dot)))

-----------------------------------------------------------------------------
(* The sun position of the shading (sunPosAt).  Longitudes are in the units *)
(* of the rotation: UnitsPerDegree to the degree.                           *)

UnitsPerDegree == FullTurn \div 360

\* instants of MaxDays days: the start of the day, a millisecond on, each
\* quarter, and the last millisecond
SunInstants ==
    { d * MsPerDay + o :
        d \in 0..MaxDays,
        o \in {0, 1, MsPerDay \div 4, MsPerDay \div 2, 3 * (MsPerDay \div 4),
               MsPerDay - 1} }

\* solarCalc.equationOfTime(t), in minutes: the library's values lie
\* between about -14 and 16
EotMinutes == {-14, -1, 0, 1, 16}

\* new Date(dt).setUTCHours(0, 0, 0, 0)
StartOfUtcDay(dt) == dt - (dt % MsPerDay)

\* (day - dt) / 864e5 * 360 - 180
RawSunLongitude(dt) == (StartOfUtcDay(dt) - dt) - HalfTurn

\* solarCalc.equationOfTime(t) / 4, degrees
EotCorrection(eot) == (eot * UnitsPerDegree) \div 4

\* the first element of sunPosAt(dt)
SunLongitude(dt, eot, solar) ==
    IF ~solar THEN 0 ELSE RawSunLongitude(dt) - EotCorrection(eot)

-----------------------------------------------------------------------------
(* The camera.  Declinations and the tilt of the up-vector are in one small *)
(* unit of angle; the up-vector (sin a, cos a, 0) is kept as its angle a.   *)

\* getSunDeclination(dt) = solarCalc.declination(solarCalc.century(dt)): the
\* library's value, taken here around a March equinox, where the declination
\* grows by one unit per millisecond and is zero at the instant Quantum
DeclinationAt(t) == t - Quantum

\* the sign of sin(a) for an angle a short of half a turn either way
SinSign(a) == IF a > 0 THEN 1 ELSE IF a < 0 THEN -1 ELSE 0

\* a camera as three.js makes it: up = (0, 1, 0)
DefaultCam == [up |-> 0, aim |-> 0]

\* cam.up.set(Math.sin(-currentTiltRad), Math.cos(-currentTiltRad), 0)
UpAngle(decl) == -decl

\* cam.lookAt(0, 0, 0): the orientation is computed from the up-vector
\* the camera has at the call
LookAt(c) == [c EXCEPT !.aim = c.up]

\* lookAt issued before the up-vector is set
CameraSyncLookFirst(c, decl) ==
    [LookAt(c) EXCEPT !.up = UpAngle(decl)]

\* the up-vector turned by the tilt from where it was, then lookAt
CameraSyncTurning(c, decl) ==
    LookAt([c EXCEPT !.up = c.up + UpAngle(decl)])

\* the up-vector for the declination, then lookAt
CameraSync(c, decl) == LookAt([c EXCEPT !.up = UpAngle(decl)])

-----------------------------------------------------------------------------
(* Initial state: the effect has run up to the call of loadGlobe, which is  *)
(* suspended at its first await.                                           *)

EngineInit ==
    /\ now = 0
    /\ pc = "import"
    /\ isMounted = TRUE
    /\ solarRef = FALSE
    /\ globeWorld = FALSE
    /\ controlsRef = FALSE
    /\ listeners = {}
    /\ disposed = FALSE
    /\ isUserInteracting = FALSE
    /\ timeoutRef = FALSE
    /\ timers = {}
    /\ lastFrameTime = 0
    /\ rafPending = 0
    /\ pov = DefaultPov
    /\ camSyncAt = -1
    /\ cam = DefaultCam
    /\ tex = [day |-> "none", night |-> "none"]
    /\ location = NoLocation
    /\ effectPending = FALSE
    /\ marker = <<>>
    /\ recenter = NoRecenter
    /\ resolved = 0
    /\ applied = 0
    /\ lastOp = "init"
    /\ inFlight = 0
    /\ lastEvent = "none"
    /\ releasedAt = -1
    /\ lastTickAt = -1

\* no pure function is being applied
NormIdle ==
    /\ normIn = [lng |-> 0, delta |-> 0]
    /\ normOut = [done |-> FALSE, lng |-> 0]

SunIdle ==
    /\ sunIn = [dt |-> 0, eot |-> 0, solar |-> FALSE]
    /\ sunOut = [done |-> FALSE, lng |-> 0]

ProjIdle ==
    /\ projIn = [camera |-> "orthographic", first |-> InitialSurface,
                 width |-> 100, height |-> 100]
    /\ projOut = [done |-> FALSE, camera |-> <<>>]

ShadeIdle ==
    /\ shadeIn = [dot |-> 0, night |-> 0, day |-> 0]
    /\ shadeOut = [done |-> FALSE, blend |-> <<0, 1>>, color |-> <<0, 1>>]

RateIdle ==
    /\ rateIn = [lng |-> 0, d1 |-> 0, d2 |-> 0]
    /\ rateOut = [done |-> FALSE, split |-> Degrees(0), single |-> Degrees(0)]

PureIdle == NormIdle /\ SunIdle /\ ProjIdle /\ ShadeIdle /\ RateIdle

\* GlobeView is not mounted
ViewIdle ==
    /\ viewMounted = FALSE
    /\ viewMounts = 0
    /\ viewAlive = [i \in ViewInstances |-> FALSE]
    /\ viewPc = [i \in ViewInstances |-> "none"]
    /\ viewGlobal = 0
    /\ observed = 0
    /\ notifyPending = FALSE
    /\ surface = InitialSurface
    /\ buffer = [i \in ViewInstances |-> <<>>]
    /\ projection = [i \in ViewInstances |-> <<>>]
    /\ viewSize = [i \in ViewInstances |-> <<>>]
    /\ viewLocation = NoLocation
    /\ viewEffectPending = FALSE
    /\ viewMarker = [i \in ViewInstances |-> <<>>]
    /\ viewTarget = [i \in ViewInstances |-> <<>>]
    /\ sunUniform = [i \in ViewInstances |-> FALSE]
    /\ lastView = "none"

Init ==
    /\ EngineInit
    /\ ViewIdle
    /\ PureIdle

-----------------------------------------------------------------------------
(* Pieces of the handlers *)

\* `world` (the closure variable) is assigned once loadGlobe has passed the
\* isMounted check of line 602 and is never unset
WorldSet == pc \in {"textures", "failed", "camera", "done"}

\* clearTimeout cancelling nothing
ClearTimeoutNever == timers

\* if (interactionTimeoutRef.current) clearTimeout(interactionTimeoutRef.current)
ClearTimeoutOfRef ==
    IF timeoutRef THEN { t \in timers : ~t.cur } ELSE timers

\* interactionTimeoutRef.current = setTimeout(..., 2000): the handle of the
\* new timer replaces the one the ref held
ArmTimer(ts) ==
    { [t EXCEPT !.cur = FALSE] : t \in ts }
        \cup { [due |-> now + DebounceMs, cur |-> TRUE, alive |-> isMounted] }

\* handleInteractionStart without its clearTimeout
TimersKeptByStart == timers

\* the timers handleInteractionStart leaves pending
TimersAfterStart == ClearTimeoutOfRef

\* handleInteractionEnd without its clearTimeout
TimersAfterEndNoClear == ArmTimer(timers)

\* the timers handleInteractionEnd leaves pending
TimersAfterEnd == ArmTimer(ClearTimeoutOfRef)

\* the cleanup without its clearTimeout
TimersKeptByCleanup == timers

\* the timers the cleanup leaves pending
TimersAfterCleanup == ClearTimeoutOfRef

\* the listeners the cleanup leaves registered
ListenersAfterCleanup == IF controlsRef THEN {} ELSE listeners

\* animate without its test of the flag
AnimateAlways == TRUE

\* if (!isMounted) return;
AnimateAlive == isMounted

\* the readiness test dropped from animate
EngineReadyAssumed == TRUE

\* if (!world || !solarRef.current) { requestAnimationFrame(animate); return; }
EngineReady == WorldSet /\ solarRef

\* the gate test dropped from the condition
RotatesUngated(deltaTime) == deltaTime > 0

\* the test of deltaTime dropped from the condition
RotatesAnyDelta(deltaTime) == ~isUserInteracting

\* if (!isUserInteracting.current && deltaTime > 0)
Rotates(deltaTime) == ~isUserInteracting /\ deltaTime > 0

\* the nudge writing the equator as the latitude
PovAfterNudgeLevel(deltaTime) ==
    [lng |-> NewLng(pov.lng, deltaTime), lat |-> 0,
     altitude |-> pov.altitude]

\* world.pointOfView({ lat: currentPov.lat, lng: newLng,
\*                     altitude: currentPov.altitude }, 0)
PovAfterNudge(deltaTime) ==
    [lng |-> NewLng(pov.lng, deltaTime), lat |-> pov.lat,
     altitude |-> pov.altitude]

\* what a run of animate did, for the history variable lastOp
TickTag(lft) ==
    IF ~AnimateAlive THEN "tick_dead"
    ELSE IF ~EngineReady THEN "tick_skip"
    ELSE IF Rotates(now - lft) THEN "tick_rot"
    ELSE IF now - lft > 0 THEN "tick_held"
    ELSE IF now - lft = 0 THEN "tick_sync"
    ELSE "tick_back"

TickTags ==
    {"tick_dead", "tick_skip", "tick_rot", "tick_held", "tick_sync",
     "tick_back"}

\* two successors scheduled by one run
ScheduledTwice(raf) == raf + 2

\* requestAnimationFrame(animate): one more frame callback is pending
Scheduled(raf) == raf + 1

\* One run of animate.  When it is called lastFrameTimeRef.current is lft,
\* the camera is c, its up-vector set for the instant camAt, and raf frame
\* callbacks are pending besides the one running.
Animate(lft, camAt, c, raf) ==
    IF ~AnimateAlive
    THEN /\ lastFrameTime' = lft
         /\ camSyncAt' = camAt
         /\ cam' = c
         /\ rafPending' = raf
         /\ UNCHANGED pov
    ELSE /\ lastFrameTime' = now
         /\ rafPending' = Scheduled(raf)
         /\ IF ~EngineReady
            THEN camSyncAt' = camAt /\ cam' = c /\ UNCHANGED pov
            ELSE /\ camSyncAt' = now
                 /\ cam' = CameraSync(c, DeclinationAt(now))
                 /\ pov' = IF Rotates(now - lft)
                           THEN PovAfterNudge(now - lft)
                           ELSE pov

-----------------------------------------------------------------------------
(* loadGlobe *)

\* the first await resolves: lines 540-609, up to the await of the textures
ImportsResolve ==
    /\ pc = "import"
    /\ solarRef' = TRUE
    /\ IF isMounted
       THEN /\ pc' = "textures"
            /\ globeWorld' = TRUE
            /\ tex' = [day |-> "pending", night |-> "pending"]
       ELSE pc' = "skipped" /\ UNCHANGED <<globeWorld, tex>>
    /\ lastOp' = "imports"
    /\ UNCHANGED <<now, isMounted, controlsRef, listeners, disposed,
                   isUserInteracting, timeoutRef, timers, lastFrameTime,
                   rafPending, pov, camSyncAt, inFlight, lastEvent, releasedAt,
                   lastTickAt, cam, locVars, otherVars>>

\* one loadAsync settles: the image has arrived, or it has not and the
\* promise is rejected
TextureSettles ==
    /\ \E k \in {"day", "night"}, o \in {"loaded", "failed"} :
          /\ tex[k] = "pending"
          /\ tex' = [tex EXCEPT ![k] = o]
    /\ lastOp' = "texture"
    /\ UNCHANGED <<now, pc, isMounted, solarRef, globeWorld, controlsRef,
                   listeners, disposed, isUserInteracting, timeoutRef, timers,
                   lastFrameTime, rafPending, pov, camSyncAt, inFlight, lastEvent,
                   releasedAt, lastTickAt, cam, locVars, otherVars>>

\* Promise.all of the two loads is fulfilled once both are
BothTexturesLoaded == tex.day = "loaded" /\ tex.night = "loaded"

\* Promise.all is rejected once one of the loads is: the await of line 606
\* throws and loadGlobe ends there
TexturesReject ==
    /\ pc = "textures"
    /\ tex.day = "failed" \/ tex.night = "failed"
    /\ pc' = "failed"
    /\ lastOp' = "textures_failed"
    /\ UNCHANGED <<now, isMounted, solarRef, globeWorld, controlsRef,
                   listeners, disposed, isUserInteracting, timeoutRef, timers,
                   lastFrameTime, rafPending, pov, camSyncAt, inFlight, lastEvent,
                   releasedAt, lastTickAt, cam, tex, locVars, otherVars>>

\* both textures are loaded: lines 611-660, up to await import("three")
TexturesResolve ==
    /\ pc = "textures"
    /\ BothTexturesLoaded
    /\ pc' = "camera"
    /\ lastOp' = "textures"
    /\ UNCHANGED <<now, isMounted, solarRef, globeWorld, controlsRef,
                   listeners, disposed, isUserInteracting, timeoutRef, timers,
                   lastFrameTime, rafPending, pov, camSyncAt, inFlight, lastEvent,
                   releasedAt, lastTickAt, cam, tex, locVars,
                   otherVars>>

\* lines 660-743: the camera with its up-vector for the current declination,
\* the controls and their listeners, lastFrameTimeRef.current = Date.now(),
\* the first call of animate
CameraSetup ==
    /\ pc = "camera"
    /\ pc' = "done"
    /\ controlsRef' = TRUE
    /\ listeners' = listeners \cup {"start", "end"}
    /\ Animate(now, now, CameraSync(DefaultCam, DeclinationAt(now)),
               rafPending)
    /\ lastTickAt' = IF AnimateAlive THEN now ELSE lastTickAt
    /\ lastOp' = "camera"
    /\ UNCHANGED <<now, isMounted, solarRef, globeWorld, disposed,
                   isUserInteracting, timeoutRef, timers, inFlight, lastEvent,
                   releasedAt, tex, locVars,
                   otherVars>>

\* SpecNorm: lines 722-729 on one longitude and one deltaTime
NormApply ==
    /\ ~normOut.done
    /\ normOut' = [done |-> TRUE, lng |-> NewLng(normIn.lng, normIn.delta)]
    /\ UNCHANGED <<normIn, sunIn, sunOut, projIn, projOut, shadeIn, shadeOut,
                   rateIn, rateOut, engineVars, viewVars>>

-----------------------------------------------------------------------------
(* The cleanup of the effect, lines 748-765.  It runs in the commit of the *)
(* unmount, before which React has run the effects of earlier commits.     *)

Teardown ==
    /\ isMounted
    /\ ~effectPending
    /\ isMounted' = FALSE
    /\ timers' = TimersAfterCleanup
    /\ listeners' = ListenersAfterCleanup
    /\ disposed' = (disposed \/ controlsRef)
    /\ globeWorld' = FALSE
    /\ controlsRef' = FALSE
    /\ lastOp' = "teardown"
    /\ UNCHANGED <<now, pc, solarRef, isUserInteracting, timeoutRef,
                   lastFrameTime, rafPending, pov, camSyncAt, inFlight, lastEvent,
                   releasedAt, lastTickAt, cam, tex, locVars,
                   otherVars>>

-----------------------------------------------------------------------------
(* The interaction handlers and the release timer, lines 522-537 *)

\* the controls dispatch 'start'
HandleInteractionStart ==
    /\ "start" \in listeners
    /\ ~disposed
    /\ inFlight < MaxDepth
    /\ isUserInteracting' = TRUE
    /\ timers' = TimersAfterStart
    /\ inFlight' = inFlight + 1
    /\ lastEvent' = "start"
    /\ lastOp' = "start"
    /\ UNCHANGED <<now, pc, isMounted, solarRef, globeWorld, controlsRef,
                   listeners, disposed, timeoutRef, lastFrameTime, rafPending,
                   pov, camSyncAt, releasedAt, lastTickAt, cam, tex, locVars,
                   otherVars>>

\* the controls dispatch 'end'
HandleInteractionEnd ==
    /\ "end" \in listeners
    /\ ~disposed
    /\ timers' = TimersAfterEnd
    /\ timeoutRef' = TRUE
    /\ inFlight' = IF inFlight > 0 THEN inFlight - 1 ELSE 0
    /\ lastEvent' = "end"
    /\ lastOp' = "end"
    /\ UNCHANGED <<now, pc, isMounted, solarRef, globeWorld, controlsRef,
                   listeners, disposed, isUserInteracting, lastFrameTime,
                   rafPending, pov, camSyncAt, releasedAt, lastTickAt,
                   cam, tex, locVars,
                   otherVars>>

\* the callback leaving the gate as it is
GateKeptActive == isUserInteracting

\* what the timer callback writes to isUserInteracting.current
GateAfterRelease == FALSE

\* the callback without its reset of the baseline
BaselineKept == lastFrameTime

\* what the timer callback writes to lastFrameTimeRef.current
BaselineAfterRelease == now

\* a pending timeout is due and its callback runs, lines 533-536
TimerFire ==
    \E t \in timers :
        /\ t.due <= now
        /\ timers' = timers \ {t}
        /\ isUserInteracting' = GateAfterRelease
        /\ lastFrameTime' = BaselineAfterRelease
        /\ releasedAt' = now
        /\ lastOp' = "timer"
        /\ UNCHANGED <<now, pc, isMounted, solarRef, globeWorld, controlsRef,
                       listeners, disposed, timeoutRef, rafPending, pov,
                       camSyncAt, inFlight, lastEvent, lastTickAt, cam, tex, locVars,
                   otherVars>>

-----------------------------------------------------------------------------
(* The frame loop, lines 697-739 *)

\* a pending frame callback runs
AnimateTick ==
    /\ rafPending > 0
    /\ Animate(lastFrameTime, camSyncAt, cam, rafPending - 1)
    /\ lastTickAt' = IF AnimateAlive THEN now ELSE lastTickAt
    /\ lastOp' = TickTag(lastFrameTime)
    /\ UNCHANGED <<now, pc, isMounted, solarRef, globeWorld, controlsRef,
                   listeners, disposed, isUserInteracting, timeoutRef, timers,
                   inFlight, lastEvent, releasedAt, tex, locVars,
                   otherVars>>

-----------------------------------------------------------------------------
(* The environment *)

\* time passes
ClockAdvance ==
    /\ \E t \in Instants : t > now /\ now' = t
    /\ lastOp' = "clock"
    /\ UNCHANGED <<pc, isMounted, solarRef, globeWorld, controlsRef,
                   listeners, disposed, isUserInteracting, timeoutRef, timers,
                   lastFrameTime, rafPending, pov, camSyncAt, inFlight, lastEvent,
                   releasedAt, lastTickAt, cam, tex, locVars,
                   otherVars>>

\* while a gesture is in progress the controls move the camera
\* (enableRotate, enableZoom), which world.pointOfView() reflects
UserDrag ==
    /\ ~disposed
    /\ inFlight > 0
    /\ \E p \in DragPovs : p # pov /\ pov' = p
    /\ lastOp' = "drag"
    /\ UNCHANGED <<now, pc, isMounted, solarRef, globeWorld, controlsRef,
                   listeners, disposed, isUserInteracting, timeoutRef, timers,
                   lastFrameTime, rafPending, camSyncAt, inFlight, lastEvent, releasedAt,
                   lastTickAt, cam, tex, locVars,
                   otherVars>>

\* the marker of the location effect
MarkerOf(loc) ==
    [lat |-> loc.lat, lng |-> loc.lng, name |-> loc.name, color |-> "yellow"]

\* the point added to the points the globe has
PointsAdded(loc) == Append(marker, MarkerOf(loc))

\* world.pointsData([{ lat, lng, name, color }])
PointsData(loc) == <<MarkerOf(loc)>>

\* the geocoding has answered: the continuation of handleLocationSubmit
\* calls setLocation (lines 802-808).  React renders and commits the new
\* state; the location effect is left to run.  The effects of an earlier
\* commit have run before a new update is rendered.
LocationResolved ==
    /\ isMounted
    /\ ~effectPending
    /\ resolved < MaxResolutions
    /\ \E loc \in Locations : location' = loc
    /\ effectPending' = TRUE
    /\ resolved' = resolved + 1
    /\ lastOp' = "set_location"
    /\ UNCHANGED <<now, pc, isMounted, solarRef, globeWorld, controlsRef,
                   listeners, disposed, isUserInteracting, timeoutRef, timers,
                   lastFrameTime, rafPending, pov, camSyncAt, inFlight, lastEvent,
                   releasedAt, lastTickAt, cam, tex, marker, recenter,
                   applied, otherVars>>

\* the location effect (lines 769-791) runs for the committed location: it
\* reads window.__globeWorld at this instant
LocationEffect ==
    /\ effectPending
    /\ effectPending' = FALSE
    /\ IF globeWorld
       THEN /\ marker' = PointsData(location)
            /\ recenter' = [to |-> location, until |-> now + RecenterMs]
            /\ applied' = applied + 1
            /\ lastOp' = "location_applied"
       ELSE /\ UNCHANGED <<marker, recenter, applied>>
            /\ lastOp' = "location_dropped"
    /\ UNCHANGED <<now, pc, isMounted, solarRef, globeWorld, controlsRef,
                   listeners, disposed, isUserInteracting, timeoutRef, timers,
                   lastFrameTime, rafPending, pov, camSyncAt, inFlight, lastEvent,
                   releasedAt, lastTickAt, cam, tex, location, resolved,
                   otherVars>>

\* the transition started by world.pointOfView(..., 1000) reaches its end:
\* the point of view is the one asked for
RecenterEnds ==
    /\ recenter # NoRecenter
    /\ now >= recenter.until
    /\ pov' = [lng |-> recenter.to.lng, lat |-> recenter.to.lat,
               altitude |-> RecenterAltitude]
    /\ recenter' = NoRecenter
    /\ lastOp' = "recentered"
    /\ UNCHANGED <<now, pc, isMounted, solarRef, globeWorld, controlsRef,
                   listeners, disposed, isUserInteracting, timeoutRef, timers,
                   lastFrameTime, rafPending, camSyncAt, inFlight, lastEvent, releasedAt,
                   lastTickAt, cam, tex, location, effectPending, marker,
                   resolved, applied, otherVars>>

Next ==
    \/ ImportsResolve
    \/ TextureSettles
    \/ TexturesResolve
    \/ TexturesReject
    \/ CameraSetup
    \/ Teardown
    \/ HandleInteractionStart
    \/ HandleInteractionEnd
    \/ TimerFire
    \/ AnimateTick
    \/ ClockAdvance
    \/ UserDrag

\* the engine and a user who makes gestures and submits no location
Spec == Init /\ [][Next]_vars

\* the last instant of the clock
MaxInstant == MaxQuanta * Quantum + 1

\* Spec with the scheduling of the browser: time passes, and the callback
\* of a timeout that is due runs
SpecLive ==
    /\ Init
    /\ [][Next]_vars
    /\ WF_vars(ClockAdvance)
    /\ WF_vars(TimerFire)

LocNext ==
    \/ ImportsResolve
    \/ TextureSettles
    \/ TexturesResolve
    \/ TexturesReject
    \/ CameraSetup
    \/ Teardown
    \/ AnimateTick
    \/ ClockAdvance
    \/ LocationResolved
    \/ LocationEffect
    \/ RecenterEnds

\* sunPosAt on one instant and one value of the equation of time
SunApply ==
    /\ ~sunOut.done
    /\ sunOut' = [done |-> TRUE,
                  lng |-> SunLongitude(sunIn.dt, sunIn.eot, sunIn.solar)]
    /\ UNCHANGED <<sunIn, normIn, normOut, projIn, projOut, shadeIn,
                   shadeOut, rateIn, rateOut, engineVars, viewVars>>

SunInit ==
    /\ EngineInit
    /\ ViewIdle
    /\ NormIdle
    /\ ProjIdle
    /\ ShadeIdle
    /\ RateIdle
    /\ sunIn \in [dt : SunInstants, eot : EotMinutes, solar : BOOLEAN]
    /\ sunOut = [done |-> FALSE, lng |-> 0]

SunNext == SunApply

SpecSun == SunInit /\ [][SunNext]_vars

\* the fragment shader on one surface point
ShadeApply ==
    /\ ~shadeOut.done
    /\ shadeOut' = [done |-> TRUE,
                    blend |-> BlendFactor(Intensity(shadeIn.dot)),
                    color |-> FragColor(shadeIn.dot, shadeIn.night,
                                        shadeIn.day)]
    /\ UNCHANGED <<shadeIn, normIn, normOut, sunIn, sunOut, projIn, projOut,
                   rateIn, rateOut, engineVars, viewVars>>

ShadeInit ==
    /\ EngineInit
    /\ ViewIdle
    /\ NormIdle
    /\ SunIdle
    /\ ProjIdle
    /\ RateIdle
    /\ shadeIn \in [dot : Dots, night : NightSamples, day : DaySamples]
    /\ shadeOut = [done |-> FALSE, blend |-> <<0, 1>>, color |-> <<0, 1>>]

ShadeNext == ShadeApply

SpecShade == ShadeInit /\ [][ShadeNext]_vars

\* longitudes a tick reads and the deltaTimes of two ticks in a row
StartLngs == {1 - HalfTurn, -Quantum, 0, Quantum, HalfTurn}
RateDeltas ==
    {1, Quantum, MsPerDay \div 2, MsPerDay - Quantum, MsPerDay - 1, MsPerDay}

\* the rotation step of two ticks in a row, and of one tick for the whole
\* time
RateApply ==
    /\ ~rateOut.done
    /\ rateOut' = [done |-> TRUE,
                   split |-> NewLngDouble(
                                NewLngDouble(DoubleOfLng(rateIn.lng),
                                             rateIn.d1),
                                rateIn.d2),
                   single |-> NewLngDouble(DoubleOfLng(rateIn.lng),
                                           rateIn.d1 + rateIn.d2)]
    /\ UNCHANGED <<rateIn, normIn, normOut, sunIn, sunOut, projIn, projOut,
                   shadeIn, shadeOut, engineVars, viewVars>>

RateInit ==
    /\ EngineInit
    /\ ViewIdle
    /\ NormIdle
    /\ SunIdle
    /\ ProjIdle
    /\ ShadeIdle
    /\ rateIn \in [lng : StartLngs, d1 : RateDeltas, d2 : RateDeltas]
    /\ rateOut = [done |-> FALSE, split |-> Degrees(0), single |-> Degrees(0)]

RateNext == RateApply

SpecRate == RateInit /\ [][RateNext]_vars

\* the ResizeObserver callback on one camera, width and height
ProjApply ==
    /\ ~projOut.done
    /\ projOut' = [done |-> TRUE,
                   camera |-> ResizeCamera(
                                 IF projIn.camera = "orthographic"
                                 THEN FirstCamera(projIn.first.width,
                                                  projIn.first.height)
                                 ELSE PerspectiveCamera(projIn.first.width,
                                                        projIn.first.height),
                                 projIn.camera, projIn.width, projIn.height)]
    /\ UNCHANGED <<projIn, normIn, normOut, sunIn, sunOut, shadeIn,
                   shadeOut, rateIn, rateOut, engineVars, viewVars>>

ProjInit ==
    /\ EngineInit
    /\ ViewIdle
    /\ NormIdle
    /\ SunIdle
    /\ ShadeIdle
    /\ RateIdle
    /\ projIn \in [camera : {"orthographic", "perspective"},
                    first : ViewSurfaces, width : Sides, height : Sides]
    /\ projOut = [done |-> FALSE, camera |-> <<>>]

ProjNext == ProjApply

SpecProj == ProjInit /\ [][ProjNext]_vars

-----------------------------------------------------------------------------
(* GlobeView (part_000): its effects, its loadGlobe and its container *)

\* the marker of the location effect of GlobeView
ViewMarkerOf(loc) ==
    [lat |-> loc.lat, lng |-> loc.lng, name |-> loc.name, color |-> "red"]

\* the body of the location effect (lines 224-244) for the prop and for
\* the world window.__globeWorld holds
ViewLocationBody(tag) ==
    IF viewLocation # NoLocation /\ viewGlobal # 0
    THEN /\ viewMarker' = [viewMarker EXCEPT
                             ![viewGlobal] = <<ViewMarkerOf(viewLocation)>>]
         /\ viewTarget' = [viewTarget EXCEPT
                             ![viewGlobal] =
                                <<[lat |-> viewLocation.lat,
                                   lng |-> viewLocation.lng,
                                   altitude |-> RecenterAltitude,
                                   ms |-> RecenterMs]>>]
         /\ lastView' = "locate"
    ELSE /\ UNCHANGED <<viewMarker, viewTarget>>
         /\ lastView' = tag

\* the effects of a mount.  The resize effect (lines 26-60) reads
\* window.__globeWorld once and makes an observer only when it is set; the
\* engine effect (62-221) starts loadGlobe, which stops at its first await;
\* the location effect (224-244) runs for the prop of the mount.
ViewMount ==
    /\ ~viewMounted
    /\ viewMounts < MaxMounts
    /\ viewMounted' = TRUE
    /\ viewMounts' = viewMounts + 1
    /\ observed' = viewGlobal
    /\ notifyPending' = (viewGlobal # 0)
    /\ viewAlive' = [viewAlive EXCEPT ![viewMounts + 1] = TRUE]
    /\ viewPc' = [viewPc EXCEPT ![viewMounts + 1] = "import"]
    /\ surface' \in ViewSurfaces
    /\ ViewLocationBody("mount")
    /\ UNCHANGED <<viewGlobal, buffer, projection, viewSize, viewLocation,
                   viewEffectPending, sunUniform, engineVars, pureVars>>

\* the cleanups of the two effects (lines 57-59 and 215-220), in the commit
\* of the unmount, before which the effects of earlier commits have run
ViewUnmount ==
    /\ viewMounted
    /\ ~viewEffectPending
    /\ viewMounted' = FALSE
    /\ observed' = 0
    /\ notifyPending' = FALSE
    /\ viewAlive' = [viewAlive EXCEPT ![viewMounts] = FALSE]
    /\ lastView' = "unmount"
    /\ UNCHANGED <<viewMounts, viewPc, viewGlobal, surface, buffer,
                   projection, viewSize, viewLocVars, sunUniform,
                   engineVars, pureVars>>

\* function animate of instance i (lines 200-206)
ViewAnimate(i) ==
    IF viewAlive[i]
    THEN sunUniform' = [sunUniform EXCEPT ![i] = TRUE]
    ELSE UNCHANGED sunUniform

\* globeDiv.offsetWidth and globeDiv.offsetHeight as instance i reads them:
\* the size of the container, and 0 once the div is out of the document
SizeRead(i) ==
    IF viewAlive[i] THEN surface ELSE [width |-> 0, height |-> 0]

\* loadGlobe of instance i resumes after an await and runs to the next:
\* after the imports to the await of the textures (147), after the
\* textures to the await of the camera's import (180), having read the
\* width and the height (176-177), and after that import to its end
ViewLoadStep ==
    /\ \E i \in ViewInstances :
          \/ /\ viewPc[i] = "import"
             /\ viewPc' = [viewPc EXCEPT
                             ![i] = IF viewAlive[i] THEN "textures"
                                    ELSE "skipped"]
             /\ UNCHANGED <<viewGlobal, projection, viewSize, sunUniform>>
          \/ /\ viewPc[i] = "textures"
             /\ viewPc' = [viewPc EXCEPT ![i] = "camera"]
             /\ viewSize' = [viewSize EXCEPT ![i] = <<SizeRead(i)>>]
             /\ UNCHANGED <<viewGlobal, projection, sunUniform>>
          \/ /\ viewPc[i] = "camera"
             /\ viewPc' = [viewPc EXCEPT ![i] = "done"]
             /\ projection' =
                   [projection EXCEPT
                      ![i] = <<FirstCamera(viewSize[i][1].width,
                                           viewSize[i][1].height)>>]
             /\ ViewAnimate(i)
             /\ viewGlobal' = i
             /\ UNCHANGED viewSize
    /\ lastView' = "load"
    /\ UNCHANGED <<viewMounted, viewMounts, viewAlive, observed,
                   notifyPending, surface, buffer, viewLocVars, engineVars,
                   pureVars>>

\* a frame callback of instance i runs
ViewTick ==
    /\ \E i \in ViewInstances :
          /\ viewPc[i] = "done"
          /\ viewAlive[i]
          /\ ViewAnimate(i)
    /\ lastView' = "tick"
    /\ UNCHANGED <<viewMounted, viewMounts, viewAlive, viewPc, viewGlobal,
                   observed, notifyPending, surface, buffer, projection,
                   viewSize, viewLocVars, engineVars, pureVars>>

\* the container takes another size; an observer, if there is one, is
\* notified
SurfaceResize ==
    /\ viewMounted
    /\ \E sz \in ViewSurfaces : sz # surface /\ surface' = sz
    /\ notifyPending' = (observed # 0)
    /\ lastView' = "surface"
    /\ UNCHANGED <<viewMounted, viewMounts, viewAlive, viewPc, viewGlobal,
                   observed, buffer, projection, viewSize, viewLocVars,
                   sunUniform, engineVars, pureVars>>

\* the ResizeObserver callback (lines 33-54) on the world it captured
ObserverNotify ==
    /\ notifyPending
    /\ observed # 0
    /\ notifyPending' = FALSE
    /\ buffer' = [buffer EXCEPT ![observed] = <<surface>>]
    /\ projection' =
          [projection EXCEPT
             ![observed] = <<ResizeCamera(@[1], "orthographic",
                                          surface.width, surface.height)>>]
    /\ lastView' = "resize"
    /\ UNCHANGED <<viewMounted, viewMounts, viewAlive, viewPc, viewGlobal,
                   observed, surface, viewSize, viewLocVars, sunUniform,
                   engineVars, pureVars>>

\* the parent renders GlobeView with another location; React commits, and
\* the location effect is left to run
ViewLocationSet ==
    /\ viewMounted
    /\ ~viewEffectPending
    /\ \E loc \in Locations : viewLocation' = loc
    /\ viewEffectPending' = TRUE
    /\ lastView' = "set_location"
    /\ UNCHANGED <<viewMounted, viewMounts, viewAlive, viewPc, viewGlobal,
                   observed, notifyPending, surface, buffer, projection,
                   viewSize, viewMarker, viewTarget, sunUniform, engineVars,
                   pureVars>>

\* the location effect (lines 224-244) runs for the committed prop
ViewLocationEffect ==
    /\ viewEffectPending
    /\ viewEffectPending' = FALSE
    /\ ViewLocationBody("location_dropped")
    /\ UNCHANGED <<viewMounted, viewMounts, viewAlive, viewPc, viewGlobal,
                   observed, notifyPending, surface, buffer, projection,
                   viewSize, viewLocation, sunUniform, engineVars, pureVars>>

ViewNext ==
    \/ ViewMount
    \/ ViewUnmount
    \/ ViewLoadStep
    \/ ViewTick
    \/ SurfaceResize
    \/ ObserverNotify
    \/ ViewLocationSet
    \/ ViewLocationEffect

\* GlobeView from before its first mount
SpecView == Init /\ [][ViewNext]_vars

\* the engine and a user who submits locations and makes no gesture
SpecLoc == Init /\ [][LocNext]_vars

\* the engine and a user who makes gestures and submits locations
NextAll == Next \/ LocationResolved \/ LocationEffect \/ RecenterEnds

SpecAll == Init /\ [][NextAll]_vars

\* animate as a handler: called with one frame callback pending, at any
\* instant, with each of the values its guards read.  loadGlobe itself
\* calls animate only after it has set `world` and solarRef.current, so in
\* Spec and SpecLoc no run of animate finds them unset.  Date.now() is the
\* wall clock, which can be set back: lastFrameTimeRef.current may hold an
\* instant later than the one animate reads.
TickInit ==
    /\ now \in Instants
    /\ pc \in {"import", "done"}
    /\ isMounted \in BOOLEAN
    /\ solarRef \in BOOLEAN
    /\ globeWorld = (WorldSet /\ isMounted)
    /\ controlsRef = FALSE
    /\ listeners = {}
    /\ disposed = FALSE
    /\ isUserInteracting \in BOOLEAN
    /\ timeoutRef = FALSE
    /\ timers = {}
    /\ lastFrameTime \in Instants
    /\ rafPending = 1
    /\ pov = DefaultPov
    /\ camSyncAt = -1
    /\ cam = DefaultCam
    /\ tex = [day |-> "none", night |-> "none"]
    /\ location = NoLocation
    /\ effectPending = FALSE
    /\ marker = <<>>
    /\ recenter = NoRecenter
    /\ resolved = 0
    /\ applied = 0
    /\ lastOp = "init"
    /\ inFlight = 0
    /\ lastEvent = "none"
    /\ releasedAt = -1
    /\ lastTickAt = -1
    /\ ViewIdle
    /\ PureIdle

TickNext == AnimateTick

SpecTick == TickInit /\ [][TickNext]_vars

\* the rotation step as a function of the longitude read and the deltaTime
NormInit ==
    /\ EngineInit
    /\ ViewIdle
    /\ SunIdle
    /\ ProjIdle
    /\ ShadeIdle
    /\ RateIdle
    /\ normIn \in [lng : RawLngs, delta : NormDeltas]
    /\ normOut = [done |-> FALSE, lng |-> 0]

NormNext == NormApply

SpecNorm == NormInit /\ [][NormNext]_vars

-----------------------------------------------------------------------------
(* The interaction gate and the rotation *)

\* C1: the scheduler never applies a rotation increment on a tick while a
\* user gesture is in flight, that is, while a start has been received whose
\* matching end has not (re-entrant starts included).
C1_NoRotationWhileGestureInFlight ==
    lastOp = "tick_rot" => inFlight = 0

\* C2: the debounce of the gate.  A start leaves the gate Active and cancels
\* the release timer, so the earlier timer never fires.  After an end,
\* however many ends preceded it, exactly one release timer is pending, due
\* one debounce delay later.  The timer callback runs only once its delay
\* has elapsed, makes the gate Idle and leaves no timer pending, so the gate
\* is released once.
C2_Debounce ==
    [][ /\ lastOp' = "start" => isUserInteracting' /\ timers' = {}
        /\ lastOp' = "end" =>
              /\ timers' = { [due |-> now + DebounceMs, cur |-> TRUE,
                              alive |-> isMounted] }
              /\ isUserInteracting' = isUserInteracting
        /\ lastOp' = "timer" =>
              /\ \E t \in timers : timers = {t} /\ t.due <= now
              /\ timers' = {}
              /\ ~isUserInteracting'
      ]_vars

\* C2 witness: the release timer has just run, a full debounce delay after
\* the end that armed it, with the gate Active until then.
C2_Witness ==
    /\ lastOp = "timer"
    /\ ~isUserInteracting
    /\ timers = {}
    /\ inFlight = 0
    /\ now >= DebounceMs

\* C3: a tick that runs while the gate is Active leaves the point of view
\* unchanged, and the tick reads the gate as it is when it runs: with the
\* gate Idle, the engine alive and time elapsed since the baseline, the tick
\* rotates, whatever handler or timer callback ran just before it.
C3_GateReadFresh ==
    [][ lastOp' \in TickTags =>
          /\ isUserInteracting => pov' = pov
          /\ (~isUserInteracting /\ isMounted /\ now > lastFrameTime)
                => pov' # pov
      ]_vars

\* C3 witness: a tick ran with time elapsed while the gate was Active, after
\* the point of view had been moved, and held the point of view.
C3_Witness ==
    /\ lastOp = "tick_held"
    /\ isUserInteracting
    /\ pov.lng # DefaultPov.lng
    /\ lastFrameTime = now

\* C4 as stated: with the engine ready and the gate Idle, the longitude after
\* the second of two consecutive ticks at t1 < t2 is
\* normalize(L + r * (t2 - t1)), L the longitude read at the second tick.
C4_AsStated ==
    [][ (lastOp' = "tick_rot" /\ lastTickAt >= 0 /\ lastTickAt < now)
          => pov'.lng = NormalizeLng(pov.lng + (now - lastTickAt))
      ]_vars

\* C4 amended: the increment is subtracted.  With the engine ready and the
\* gate Idle, and no release-timer callback run since the previous tick, the
\* longitude after the second of two consecutive ticks at t1 < t2 is
\* normalize(L - r * (t2 - t1)); latitude and altitude are those read.
C4_RotationAmount ==
    [][ (lastOp' = "tick_rot" /\ lastTickAt >= 0 /\ releasedAt <= lastTickAt)
          => /\ lastTickAt < now
             /\ pov'.lng = NormalizeLng(pov.lng - (now - lastTickAt))
      ]_vars

\* C4 witness: ticks at t = 0 and t = 1000 with the gate Idle throughout
\* moved the longitude from 0 by 1000 units, 0.00417 degrees.
C4_Witness ==
    /\ lastOp = "tick_rot"
    /\ now = Quantum
    /\ releasedAt = -1
    /\ pov = [DefaultPov EXCEPT !.lng = -Quantum]

\* C5: for any raw longitude and any increment the longitude written lies in
\* (-180, 180] and differs from the raw value by a multiple of 360 (the loops
\* terminate: the value is computed).
C5_Normalized ==
    normOut.done =>
        /\ -HalfTurn < normOut.lng
        /\ normOut.lng <= HalfTurn
        /\ (normOut.lng - (normIn.lng - normIn.delta)) % FullTurn = 0

\* C5 witness: a raw value more than a turn below the range, brought to 180
\* exactly.
C5_Witness ==
    /\ normOut.done
    /\ normIn.lng - normIn.delta <= -HalfTurn - FullTurn
    /\ normOut.lng = HalfTurn

\* C6: the timer callback makes the gate Idle and sets the baseline to the
\* instant it runs at, and a tick that rotates after a release uses a
\* deltaTime no larger than the time elapsed since that release.
C6_BaselineReset ==
    [][ /\ lastOp' = "timer" =>
              ~isUserInteracting' /\ lastFrameTime' = now /\ now' = now
        /\ (lastOp' = "tick_rot" /\ releasedAt >= 0) =>
              now - lastFrameTime <= now - releasedAt
      ]_vars

\* C6 witness: start and end at t = 0, the callback at t = 2001, then the
\* first rotating tick, which rotated by the time elapsed since 2001 only.
C6_Witness ==
    /\ lastOp = "tick_rot"
    /\ releasedAt = DebounceMs + 1
    /\ now > releasedAt
    /\ pov = [DefaultPov EXCEPT !.lng = releasedAt - now]

-----------------------------------------------------------------------------
(* Teardown *)

\* C7: after teardown the frame loop stops.  At most one frame callback is
\* ever pending; once the flag is down the number pending never grows, and a
\* callback that still runs does no camera or rotation work, leaves the
\* baseline alone and schedules no successor.
C7_FrameLoopStops ==
    /\ [](rafPending <= 1)
    /\ [][ ~isMounted =>
             /\ rafPending' <= rafPending
             /\ lastOp' \in TickTags =>
                   /\ lastOp' = "tick_dead"
                   /\ rafPending' = rafPending - 1
                   /\ UNCHANGED <<pov, camSyncAt, lastFrameTime>>
         ]_vars

\* C7 witness: the one callback that was pending at teardown has run at a
\* later instant than the last live tick and the loop is at rest.
C7_Witness ==
    /\ lastOp = "tick_dead"
    /\ ~isMounted
    /\ rafPending = 0
    /\ now > lastFrameTime
    /\ camSyncAt = lastTickAt

\* C8: a release timer armed before teardown is not pending after it, and
\* no timer callback that runs after teardown belongs to such a timer.
C8_TimerCancelled ==
    /\ [](~isMounted => \A t \in timers : ~t.alive)
    /\ [][ (~isMounted /\ lastOp' = "timer")
             => \E t \in timers : ~t.alive /\ timers' = timers \ {t}
         ]_vars

\* C8 witness: teardown has just run with the gate Active after a start and
\* its end, whose timer had not fired, and no timer is pending.
C8_Witness ==
    /\ lastOp = "teardown"
    /\ timeoutRef
    /\ isUserInteracting
    /\ inFlight = 0
    /\ releasedAt = -1
    /\ timers = {}

\* C9: once teardown and the initialization have both run to completion no
\* start or end handler is registered on the controls.
C9_SubscriptionsReleased ==
    (~isMounted /\ pc \in {"done", "skipped"}) => listeners = {}

\* C10: after teardown no deferred callback writes isUserInteracting,
\* lastFrameTime, the point of view or the camera: a frame tick that runs is
\* a no-op and no timer callback runs.
C10_CallbacksGuarded ==
    ~isMounted => lastOp \notin ({"timer"} \cup (TickTags \ {"tick_dead"}))

-----------------------------------------------------------------------------
\* the tags of the ticks that run with the engine alive and ready
LiveTickTags == {"tick_rot", "tick_held", "tick_sync", "tick_back"}

\* C11: every tick that runs while the engine is alive and ready, with the
\* gate Idle or Active and with time elapsed or not, leaves the up-vector
\* at the angle of minus the declination of the instant, so with a negative
\* x component for a positive declination, and leaves the camera oriented
\* by a lookAt that was issued after the up-vector was written.
C11_CameraSyncEveryTick ==
    [][ (lastOp' \in TickTags /\ isMounted /\ WorldSet /\ solarRef)
          => /\ lastOp' \in LiveTickTags
             /\ cam'.up = -DeclinationAt(now)
             /\ (DeclinationAt(now) > 0 => SinSign(cam'.up) < 0)
             /\ (DeclinationAt(now) < 0 => SinSign(cam'.up) > 0)
             /\ cam'.aim = cam'.up
      ]_vars

\* C11 witness: a tick has run with the gate Active at an instant of
\* positive declination, after a tick at an instant of another declination,
\* and the camera is oriented by the new up-vector.
C11_Witness ==
    /\ lastOp = "tick_held"
    /\ isUserInteracting
    /\ DeclinationAt(now) > 0
    /\ cam.up = -DeclinationAt(now)
    /\ cam.aim = cam.up

\* C20: a tick that runs at the instant for whose declination the camera
\* was last updated leaves the up-vector and the orientation as they were:
\* the update applied twice with one declination equals the update applied
\* once.
C20_CameraSyncIdempotent ==
    [][ (lastOp' \in LiveTickTags /\ camSyncAt = now) => cam' = cam ]_vars

\* C20 witness: a second tick has run at an instant of non-zero declination
\* at which no timer callback ran, so after a tick at the same instant, and
\* the camera has the up-vector of that declination.
C20_Witness ==
    /\ lastOp = "tick_sync"
    /\ releasedAt # now
    /\ lastTickAt = now
    /\ DeclinationAt(now) # 0
    /\ cam = [up |-> -DeclinationAt(now), aim |-> -DeclinationAt(now)]

-----------------------------------------------------------------------------
(* The initialization join and the location effect *)

\* C13: the engine is treated as ready, by the start of the frame loop or
\* by a run of the location effect that sets the marker and starts the
\* recenter on the engine handle, only once both the day and the night
\* texture have loaded.
C13_ReadyOnlyAfterBothTextures ==
    (lastOp \in {"camera", "location_applied"} \cup TickTags)
        => BothTexturesLoaded

\* C14: no tick writes the point of view while the transition of a recenter
\* is in progress.
C14_WritersSerialized ==
    lastOp = "tick_rot" => ~(recenter # NoRecenter /\ now < recenter.until)

\* C15: once the engine is initialized and alive the location that was last
\* resolved has been consumed, whenever it was resolved: it is the marker.
C15_EveryLocationConsumed ==
    (location # NoLocation /\ ~effectPending /\ isMounted /\ pc = "done")
        => marker = <<MarkerOf(location)>>

\* C16: the globe has at most one marker; a run of the location effect that
\* reaches the globe leaves the marker of the location just resolved as the
\* only one, and nothing else changes the markers.  The same holds of each
\* globe of GlobeView and its location effect.
C16_SingleMarker ==
    /\ [](Len(marker) <= 1)
    /\ [](\A i \in ViewInstances : Len(viewMarker[i]) <= 1)
    /\ [][ /\ lastOp' = "location_applied"
               => marker' = <<MarkerOf(location')>>
           /\ marker' # marker => lastOp' = "location_applied"
           /\ lastView' = "locate"
               => viewMarker'[viewGlobal] = <<ViewMarkerOf(viewLocation')>>
           /\ viewMarker' # viewMarker => lastView' = "locate"
         ]_vars

\* C16 witness: two locations have been resolved and applied, and the only
\* marker is that of the second, which is not the first's.
C16_Witness ==
    /\ lastOp = "location_applied"
    /\ applied = 2
    /\ recenter.to = location
    /\ marker = <<MarkerOf(location)>>
    /\ \E loc \in Locations : loc # location /\ pov.lat = loc.lat

-----------------------------------------------------------------------------
(* The guards of animate *)

\* C12: a run of animate with the engine alive and `world` or the solar
\* model not set writes neither the camera nor the point of view, and
\* consumes its frame callback and schedules exactly one, so the loop goes
\* on.
C12_NotReadyTickSkips ==
    [][ (lastOp' \in TickTags /\ isMounted /\ ~(WorldSet /\ solarRef))
          => /\ lastOp' = "tick_skip"
             /\ UNCHANGED <<pov, cam, camSyncAt>>
             /\ rafPending' = rafPending
             /\ rafPending' = 1
      ]_vars

\* C12 witness: animate has run alive, past the instant 0 and with the gate
\* Idle, with the solar model set and `world` not; one frame callback is
\* pending and the camera and the point of view are as they were made.
C12_Witness ==
    /\ lastOp = "tick_skip"
    /\ isMounted
    /\ solarRef
    /\ ~WorldSet
    /\ ~isUserInteracting
    /\ lastTickAt = now
    /\ now > 0
    /\ rafPending = 1
    /\ cam = DefaultCam
    /\ pov = DefaultPov

-----------------------------------------------------------------------------
(* The sun position and the viewport *)

\* C17: the sun longitude sunPosAt returns lies in (-180, 180] degrees.
C17_SunLongitudeInRange ==
    sunOut.done => (-HalfTurn < sunOut.lng /\ sunOut.lng <= HalfTurn)

\* C18: once the engine of the mounted GlobeView is initialized, a change
\* of the size of its container is detected: an observer whose callback
\* acts on that engine has a notification to deliver.
C18_ResizeDetected ==
    (lastView = "surface" /\ viewMounted /\ viewPc[viewMounts] = "done")
        => (observed = viewMounts /\ notifyPending)

\* C19: after the resize callback has run on an orthographic camera for a
\* width and a height above zero, left = -right and bottom = -top, and the
\* half-width and the half-height are both at least min(width, height)/2.1.
C19_GlobeFits ==
    (projOut.done /\ projIn.camera = "orthographic")
        => /\ projOut.camera.left = Neg(projOut.camera.right)
           /\ projOut.camera.bottom = Neg(projOut.camera.top)
           /\ AtLeast(projOut.camera.right,
                      <<10 * Min(projIn.width, projIn.height), 21>>)
           /\ AtLeast(projOut.camera.top,
                      <<10 * Min(projIn.width, projIn.height), 21>>)

-----------------------------------------------------------------------------
(* The shading and the rate of the rotation *)

\* C21: a surface point whose intensity is at the lower edge, so every
\* point that faces away from the light, gets the night sample exactly; a
\* point whose intensity is at or above the upper edge gets the day sample
\* exactly; everywhere the blend factor lies in [0, 1] and is no larger
\* than the blend factor of any greater intensity.
C21_ShadingBoundary ==
    shadeOut.done =>
        /\ (Intensity(shadeIn.dot) = LowerEdge
              => Same(shadeOut.color, <<shadeIn.night, 1>>))
        /\ (shadeIn.dot <= 0 => Same(shadeOut.color, <<shadeIn.night, 1>>))
        /\ (shadeIn.dot >= UpperEdge
              => Same(shadeOut.color, <<shadeIn.day, 1>>))
        /\ AtLeast(shadeOut.blend, <<0, 1>>)
        /\ AtLeast(<<1, 1>>, shadeOut.blend)
        /\ \A d \in Dots :
              d >= shadeIn.dot
                  => AtLeast(BlendFactor(Intensity(d)), shadeOut.blend)

\* C21 witness: a point between the edges, whose colour lies strictly
\* between a night sample and a brighter day sample.
C21_Witness ==
    /\ shadeOut.done
    /\ shadeIn.dot > LowerEdge
    /\ shadeIn.dot < UpperEdge
    /\ ~Same(shadeOut.color, <<shadeIn.night, 1>>)
    /\ ~Same(shadeOut.color, <<shadeIn.day, 1>>)
    /\ AtLeast(shadeOut.color, <<shadeIn.night, 1>>)
    /\ AtLeast(<<shadeIn.day, 1>>, shadeOut.color)

\* C29 as stated: two ticks in a row with deltaTimes d1 and d2 leave the
\* longitude one tick with deltaTime d1 + d2 leaves, and when d1 + d2 is a
\* day they leave the longitude they started from.
C29_AsStated ==
    rateOut.done =>
        /\ rateOut.split = rateOut.single
        /\ (rateIn.d1 + rateIn.d2 = MsPerDay
              => rateOut.split = DoubleOfLng(rateIn.lng))

\* the rounding two ticks of up to a day each can add up to: 2^-40 degree
Tolerance == {FracBits - 40}

\* C29: the longitude two ticks in a row with deltaTimes d1 and d2 leave
\* and the one a single tick with deltaTime d1 + d2 leaves are, on the
\* circle, no further apart than the rounding, and when d1 + d2 is a day
\* they are no further than that from the longitude of the start.
C29_RateIndependentOfFrames ==
    rateOut.done =>
        /\ ~LessMag(Tolerance, CircleDistance(rateOut.split, rateOut.single))
        /\ (rateIn.d1 + rateIn.d2 = MsPerDay
              => /\ ~LessMag(Tolerance,
                             CircleDistance(rateOut.split,
                                            DoubleOfLng(rateIn.lng)))
                 /\ ~LessMag(Tolerance,
                             CircleDistance(rateOut.single,
                                            DoubleOfLng(rateIn.lng))))

\* C29 witness: two ticks, the first of a day, which takes the longitude
\* across the wrap, end at -180 degrees and a rounding, where the single
\* tick ends at 180 degrees.
C29_Witness ==
    /\ rateOut.done
    /\ rateIn.d1 = MsPerDay
    /\ rateIn.lng - rateIn.d1 <= -HalfTurn
    /\ rateOut.split.neg
    /\ rateOut.single = Degrees(180)
    /\ CircleDistance(rateOut.split, rateOut.single) # {}

-----------------------------------------------------------------------------
(* Ticks without elapsed time *)

\* C23: a tick of the live and ready engine whose deltaTime is zero or
\* negative leaves the point of view as it was, with the gate Idle too,
\* sets lastFrameTime to the instant it runs at and leaves the camera
\* synchronized to the declination of that instant.
C23_NoRotationWithoutElapsedTime ==
    [][ (/\ lastOp' \in TickTags
         /\ isMounted /\ WorldSet /\ solarRef
         /\ now - lastFrameTime <= 0)
          => /\ lastOp' \in {"tick_sync", "tick_back"}
             /\ pov' = pov
             /\ lastFrameTime' = now
             /\ camSyncAt' = now
             /\ cam' = [up |-> -DeclinationAt(now),
                        aim |-> -DeclinationAt(now)]
      ]_vars

\* C23 witness: a tick has run with the gate Idle at an instant earlier
\* than the baseline it found; the baseline is now that instant, the point
\* of view is the one the globe started with and the camera has the
\* up-vector of the instant's declination.
C23_Witness ==
    /\ lastOp = "tick_back"
    /\ ~isUserInteracting
    /\ lastFrameTime = now
    /\ pov = DefaultPov
    /\ DeclinationAt(now) # 0
    /\ cam = [up |-> -DeclinationAt(now), aim |-> -DeclinationAt(now)]

-----------------------------------------------------------------------------
(* The gate, the release timer and the frame loop *)

\* C24: an end handled with the gate Active, early enough for its timer to
\* come due, leads to the timer callback having run with the gate Idle,
\* unless a start, the teardown or a later end whose timer comes due after
\* the last instant of the clock comes first; and a tick of the live and
\* ready engine that finds the gate Idle and time elapsed rotates.
C24_GateReleased ==
    /\ (lastOp = "end" /\ isUserInteracting /\ isMounted
          /\ now + DebounceMs <= MaxInstant)
         ~> \/ (lastOp = "timer" /\ ~isUserInteracting /\ timers = {})
            \/ lastEvent = "start"
            \/ ~isMounted
            \/ \E t \in timers : t.due > MaxInstant
    /\ [][ (/\ lastOp' \in TickTags
             /\ isMounted /\ WorldSet /\ solarRef
             /\ ~isUserInteracting
             /\ now > lastFrameTime)
              => (lastOp' = "tick_rot" /\ pov' # pov)
         ]_vars

\* C24 witness: after a start and its end the timer callback has run, and
\* a later tick has rotated the globe from the baseline of the release.
C24_Witness ==
    /\ lastOp = "tick_rot"
    /\ lastEvent = "end"
    /\ inFlight = 0
    /\ timeoutRef
    /\ timers = {}
    /\ releasedAt >= DebounceMs
    /\ now > releasedAt
    /\ pov.lng = NewLng(DefaultPov.lng, now - releasedAt)

\* C25: the gate is Idle at first, becomes Active only in the start handler
\* and Idle only in the timer callback, which runs only when the last
\* event was an end: while the last event is a start the gate is Active.
C25_NoSpontaneousRelease ==
    /\ ~isUserInteracting
    /\ [](lastEvent = "start" => isUserInteracting)
    /\ [][ /\ (isUserInteracting' /\ ~isUserInteracting)
               => lastOp' = "start"
           /\ (~isUserInteracting' /\ isUserInteracting)
               => lastOp' = "timer"
           /\ lastOp' = "timer" => lastEvent = "end"
         ]_vars

\* C25 witness: a start that came after an earlier end, with no end after
\* it; more than the debounce delay has passed, a tick has run, and the
\* gate is Active with no timer pending.
C25_Witness ==
    /\ lastEvent = "start"
    /\ timeoutRef
    /\ isUserInteracting
    /\ timers = {}
    /\ lastOp = "tick_held"
    /\ now > DebounceMs

\* C26: at most one release timer is pending, and one is pending only if
\* the last event the controls dispatched was an end.
C26_OneTimer ==
    /\ Cardinality(timers) <= 1
    /\ (timers # {} => lastEvent = "end")

\* C26 witness: an end has been handled past the instant 0, no start and no
\* timer callback having run before it, and exactly one timer is pending,
\* due one debounce delay from now.
C26_Witness ==
    /\ lastOp = "end"
    /\ now > 0
    /\ releasedAt = -1
    /\ ~isUserInteracting
    /\ \E t \in timers : timers = {t} /\ t.due = now + DebounceMs

\* C27: at most one frame callback is pending, and exactly one while the
\* engine is alive and its loop has started.
C27_SingleFrameLoop ==
    /\ rafPending <= 1
    /\ ((isMounted /\ pc = "done") => rafPending = 1)

\* C27 witness: a tick of the live and ready engine has run past the
\* instant the loop started at, and one frame callback is pending.
C27_Witness ==
    /\ lastOp \in LiveTickTags
    /\ isMounted
    /\ lastTickAt > 0
    /\ rafPending = 1

\* C28: a tick that rotates writes the latitude and the altitude it read
\* and the longitude of the rotation step, and starts or changes no
\* transition of the point of view.
C28_NudgeOnlyLongitude ==
    [][ lastOp' = "tick_rot"
          => /\ pov'.lat = pov.lat
             /\ pov'.altitude = pov.altitude
             /\ pov'.lng = NewLng(pov.lng, now - lastFrameTime)
             /\ recenter' = recenter
      ]_vars

\* C28 witness: a tick has rotated the globe from the point of view a
\* recenter ended at, off the equator, while the transition to another
\* location is running.
C28_Witness ==
    /\ lastOp = "tick_rot"
    /\ recenter # NoRecenter
    /\ \E loc \in Locations :
          /\ loc # recenter.to
          /\ pov.lat = loc.lat
          /\ pov.lat # 0
          /\ pov.altitude = RecenterAltitude
          /\ pov.lng # loc.lng

====
